---- MODULE Spec2Model ----
(***************************************************************************)
(* Model of the report crawler (src/src/crawler.py): one process run is    *)
(* load the ledger, search, loop over the links, persist, e-mail.          *)
(* The durable files, the links, the batch and the messages handed to      *)
(* SMTP are the state; the search provider, the web, the embedding model   *)
(* and the file system are the environment and choose their answers.       *)
(* The weekly training job (src/src/relevance_model.py) reads the same     *)
(* ledger and is modelled as a process of its own.                         *)
(***************************************************************************)
EXTENDS Integers, Sequences, FiniteSets, TLC

\* ---------------------------------------------------------------- bounds
MaxFetches == 4       \* fetch calls in one behaviour
MaxStart == 4         \* largest page cursor ("startIndex") the provider hands out
MaxW == 102           \* largest window size tried for chunks
MaxExtra == 3         \* token counts tried beyond W + S for chunks
MaxPagesTried == 4    \* largest page count and page threshold tried for the gate
MaxStore == 11        \* largest ledger and largest label file the training job is run on

\* ------------------------------------------------- configuration (config.yaml)
NUM_RESULTS == 3
MIN_YEAR == 2015
MIN_PAGES == 5
WIN == 512
STRIDE == 256
Floor == 100          \* the literal of "if len(chunk) < 100" in chunks
WORDS_PER_PAGE == 500 \* "len(text.split()) // 500"
SENTINEL_YEAR == 1900
MIN_LABELED == 10     \* the literal of "if len(labeled)<10" in relevance_model.main

None == 0             \* fetch's failure result
NaN == -1             \* mean of an empty array

\* ------------------------------------------------------------ environment
\* The locators the provider can return.  endswith(".pdf") and the 4-digit
\* numbers occurring in the locator are all the crawl reads of a locator.
Urls == {1, 2, 3}
UrlInfo ==
  1 :> [pdf |-> TRUE,  nums |-> << >>] @@
  2 :> [pdf |-> TRUE,  nums |-> <<2016>>] @@
  3 :> [pdf |-> FALSE, nums |-> << >>]

\* The byte strings the web can return.  kind is the real format of the
\* bytes; total_pages, words and nums describe what the extractors get out
\* of them (words: number of whitespace-separated tokens of the extracted
\* text, nums: the 4-digit numbers in its first 4000 characters, in order).
Contents == {1, 2, 3, 4, 5}
Doc ==
  1 :> [kind |-> "pdf",  readable |-> TRUE, total_pages |-> 10, words |-> 600,
        nums |-> <<2021>>] @@
  2 :> [kind |-> "html", readable |-> TRUE, total_pages |-> 0,  words |-> 3000,
        nums |-> <<1850, 2021, 1998>>] @@
  3 :> [kind |-> "pdf",  readable |-> TRUE, total_pages |-> 2,  words |-> 400,
        nums |-> <<2021>>] @@
  4 :> [kind |-> "pdf",  readable |-> TRUE, total_pages |-> 10, words |-> 20,
        nums |-> <<2021>>] @@
  5 :> [kind |-> "pdf",  readable |-> TRUE, total_pages |-> 8,  words |-> 900,
        nums |-> << >>]

\* The "items" lists one provider response can carry.
ItemLists == {<< >>, <<1, 2>>, <<3>>}

\* ---------------------------------------------------------------- helpers
Min(a, b) == IF a < b THEN a ELSE b

Take(s, n) == SubSeq(s, 1, Min(n, Len(s)))

RECURSIVE SumSeq(_)
SumSeq(s) == IF s = << >> THEN 0 ELSE Head(s) + SumSeq(Tail(s))

\* sha256 is injective on the byte strings of the model.
sha(b) == 7000 + 13 * b

\* extract_pdf: (text, total_pages) of a parseable PDF, ValueError otherwise.
\* The text is that of the first 5 pages (the default of pages).
extract_pdf(b) ==
  IF Doc[b].kind = "pdf" /\ Doc[b].readable
  THEN [ok |-> TRUE,
        text |-> [words |-> Doc[b].words, nums |-> Doc[b].nums],
        pages |-> Doc[b].total_pages]
  ELSE [ok |-> FALSE, text |-> [words |-> 0, nums |-> << >>], pages |-> 0]

\* extract_html: trafilatura's main text, "" when it finds none (as for
\* bytes that are no HTML).
extract_html(b) ==
  IF Doc[b].kind = "html"
  THEN [words |-> Doc[b].words, nums |-> Doc[b].nums]
  ELSE [words |-> 0, nums |-> << >>]

\* chunks: the windows of a list of n words, each given as <<start, length>>.
\* range(0, n, s); chunk = words[i:i+w]; stop at the first chunk under Floor.
RECURSIVE chunksFrom(_, _, _, _)
chunksFrom(i, n, w, s) ==
  IF i >= n THEN << >>
  ELSE LET len == Min(w, n - i) IN
       IF len < Floor THEN << >>
       ELSE <<(<<i, len>>)>> \o chunksFrom(i + s, n, w, s)

\* chunks with "<=" for "<" in the floor test.
RECURSIVE chunksFromLe(_, _, _, _)
chunksFromLe(i, n, w, s) ==
  IF i >= n THEN << >>
  ELSE LET len == Min(w, n - i) IN
       IF len <= Floor THEN << >>
       ELSE <<(<<i, len>>)>> \o chunksFromLe(i + s, n, w, s)

chunksLe(n, w, s) == chunksFromLe(0, n, w, s)

chunks(n, w, s) == chunksFrom(0, n, w, s)

\* The opaque embedding of one window (a deterministic stub).
encode(c) == (c[1] + 3 * c[2]) % 7

\* embed: the mean of the window vectors; the mean of no vector is NaN.
embed(text) ==
  LET cs == chunks(text.words, WIN, STRIDE)
      vecs == [k \in 1..Len(cs) |-> encode(cs[k])]
  IN IF Len(vecs) = 0 THEN NaN ELSE SumSeq(vecs) \div Len(vecs)

\* The search that keeps the rightmost number starting with 19 or 20.
RECURSIVE yrsearchLast(_)
yrsearchLast(nums) ==
  IF nums = << >> THEN 0
  ELSE IF nums[Len(nums)] >= 1900 /\ nums[Len(nums)] <= 2099 THEN nums[Len(nums)]
  ELSE yrsearchLast(SubSeq(nums, 1, Len(nums) - 1))

\* re.search(r"(19|20)\d{2}", text[:4000] + url): the leftmost number that
\* starts with 19 or 20, 0 for no match.
RECURSIVE yrsearch(_)
yrsearch(nums) ==
  IF nums = << >> THEN 0
  ELSE IF Head(nums) >= 1900 /\ Head(nums) <= 2099 THEN Head(nums)
  ELSE yrsearch(Tail(nums))

\* year of a text with these numbers fetched from a locator with those.
yearFrom(textNums, urlNums) ==
  LET yrmatch == yrsearch(textNums \o urlNums)
  IN IF yrmatch # 0 THEN yrmatch ELSE SENTINEL_YEAR

yearOf(text, url) == yearFrom(text.nums, UrlInfo[url].nums)

\* The gate with the comparison on the pages turned round.
admitReversed(pages, year, minPages, minYear) ==
  ~(pages > minPages) /\ ~(year < minYear)

\* "if pages < MIN_PAGES: continue" and "if year < MIN_YEAR: continue":
\* TRUE when the candidate passes both.
admit(pages, year, minPages, minYear) ==
  ~(pages < minPages) /\ ~(year < minYear)


\* ------------------------------------------------------------------ state
VARIABLES
  jsonState,   \* reports_master.json: "absent", "ok" (a JSON list) or "corrupt"
  jsonRecs,    \* the list in reports_master.json when it is "ok"
  csvRecs,     \* the rows of reports_master.csv
  pc,          \* where the process is: idle, search, loop, csv, email, done, aborted
  fetches,     \* fetch calls made so far, over all runs
  existing,    \* the dict loaded from the ledger, in insertion order
  links,       \* google_search's list, then the list the loop runs over
  start,       \* google_search's page cursor
  idx,         \* number of links the loop has finished with
  new,         \* the batch of this run
  sent,        \* the messages this process handed to the SMTP server
  effects,     \* this run's file writes and SMTP sends, in order: <<op, ok>>
  outcomes,    \* how each finished link left the loop body
  fetchLog,    \* this run's fetch calls: <<url, result>>
  diskAtStart, \* the two files as they were when the process started
  same,        \* the run so far repeats the previous completed run's inputs
  prevLinks,   \* the previous completed run's links while same holds
  prevLog,     \* the previous completed run's fetchLog while same holds
  chunkTest,   \* the chunks call under test: [w, s, n, out]
  gateTest,    \* the gate under test: one candidate, two pairs of thresholds
  searchObs,   \* the google_search call under test: its last response, and
               \* the parity of the number of requests it has made
  train        \* the training job: data/labels, its label map, where main is,
               \* its in-memory labeled list, whether model_latest.joblib is written

vars == <<jsonState, jsonRecs, csvRecs, pc, fetches, existing, links, start, idx,
          new, sent, effects, outcomes, fetchLog, diskAtStart, same, prevLinks,
          prevLog, chunkTest, gateTest, searchObs, train>>

runVars == <<existing, links, start, idx, new, sent, effects, outcomes, fetchLog>>
diskVars == <<jsonState, jsonRecs, csvRecs>>
ghostVars == <<diskAtStart, same, prevLinks, prevLog>>
testVars == <<chunkTest, gateTest, searchObs, train>>

NoTrain == [pc |-> "idle", labels |-> FALSE, wellFormed |-> TRUE, labelmap |-> << >>,
            labeled |-> << >>, artifact |-> FALSE]
NoSearchObs == [items |-> << >>, more |-> FALSE, cursor |-> 1, tick |-> 0]

NoChunkTest == [w |-> WIN, s |-> STRIDE, n |-> 0, out |-> << >>, done |-> TRUE]

\* The calls of chunks tried: every window size from the floor up, every
\* stride up to the window size, every token count up to a little over W + S.
ChunkInputs(maxW) ==
  {[w |-> w, s |-> s, n |-> n, out |-> << >>, done |-> FALSE] :
     w \in Floor..maxW, s \in 1..maxW, n \in 0..(2 * maxW + MaxExtra)}

\* The numbers a text or a locator can show to the year search, and the
\* year thresholds tried.
YearTokens == {1850, 1998, 2021}
NumLists == {<< >>} \cup {<<a>> : a \in YearTokens}
              \cup {<<a, b>> : a \in YearTokens, b \in YearTokens}
MinYears == {1900, 1999, 2015, 2022}

NoGateTest == [textNums |-> << >>, urlNums |-> << >>, pages |-> 0,
               minPages |-> MIN_PAGES, minYear |-> MIN_YEAR,
               lowPages |-> MIN_PAGES, lowYear |-> MIN_YEAR,
               year |-> 0, high |-> FALSE, low |-> FALSE, done |-> TRUE]

\* One candidate (its text's numbers, its locator's numbers, its page count)
\* and two configurations, the second with thresholds no higher.
GateInputs(maxPages) ==
  {[textNums |-> t, urlNums |-> u, pages |-> p,
    minPages |-> mp, minYear |-> my, lowPages |-> lp, lowYear |-> ly,
    year |-> 0, high |-> FALSE, low |-> FALSE, done |-> FALSE] :
     t \in NumLists, u \in {<< >>} \cup {<<a>> : a \in YearTokens},
     p \in 0..maxPages, mp \in 0..maxPages, my \in MinYears,
     lp \in 0..maxPages, ly \in MinYears}

\* {r["sha"]: r for r in recs}: a later record with a known sha replaces the
\* value and keeps the key's place.
RECURSIVE DictPut(_, _)
DictPut(d, r) ==
  IF d = << >> THEN <<r>>
  ELSE IF Head(d).sha = r.sha THEN <<r>> \o Tail(d)
  ELSE <<Head(d)>> \o DictPut(Tail(d), r)

RECURSIVE DictOf(_)
DictOf(recs) ==
  IF recs = << >> THEN << >>
  ELSE DictPut(DictOf(SubSeq(recs, 1, Len(recs) - 1)), recs[Len(recs)])

\* The load with the parse error swallowed: an empty dict.
json_loadLenient(state, recs) ==
  [ok |-> TRUE, dict |-> IF state = "ok" THEN DictOf(recs) ELSE << >>]

\* "existing = {}; if JSON_PATH.exists(): existing = {... json.load(...)}":
\* the dict, or the exception json.load raises on a file that is no JSON.
json_load(state, recs) ==
  IF state = "corrupt" THEN [ok |-> FALSE, dict |-> << >>]
  ELSE [ok |-> TRUE, dict |-> IF state = "ok" THEN DictOf(recs) ELSE << >>]

\* The membership test left out.
IsKnownNever(dig, d) == FALSE

\* "dig in existing"
IsKnown(dig, d) == \E k \in 1..Len(d) : d[k].sha = dig

\* The "if new:" test left out.
ShouldPersistAlways(batch) == TRUE

\* "if new:"
ShouldPersist(batch) == batch # << >>

\* The loop body for one link, given what fetch returned and whether the
\* embedding model raises: the way it leaves the body and the record it
\* appends.  "crash" is an exception nothing catches.
NoRec == [sha |-> 0, url |-> 0, year |-> 0, pages |-> 0, score |-> 0]

Candidate(url, raw, encodeRaises, d) ==
  IF raw = None THEN [outcome |-> "SkippedFetchError", rec |-> NoRec, steps |-> <<"fetch">>]
  ELSE LET dig == sha(raw) IN
  IF IsKnown(dig, d) THEN [outcome |-> "SkippedDuplicate", rec |-> NoRec,
                          steps |-> <<"fetch", "hash">>]
  ELSE LET pdf == UrlInfo[url].pdf
           ex == extract_pdf(raw)
       IN
  IF pdf /\ ~ex.ok THEN [outcome |-> "SkippedUnreadable", rec |-> NoRec,
                        steps |-> <<"fetch", "hash", "extract">>]
  ELSE LET text == IF pdf THEN ex.text ELSE extract_html(raw)
           pages == IF pdf THEN ex.pages ELSE text.words \div WORDS_PER_PAGE
           year == yearOf(text, url)
       IN
  IF ~admit(pages, year, MIN_PAGES, MIN_YEAR)
  THEN [outcome |-> "SkippedBelowThreshold", rec |-> NoRec,
        steps |-> <<"fetch", "hash", "extract", "gate">>]
  ELSE IF encodeRaises THEN [outcome |-> "crash", rec |-> NoRec,
                            steps |-> <<"fetch", "hash", "extract", "gate", "embed">>]
  ELSE [outcome |-> "Admitted",
        rec |-> [sha |-> dig, url |-> url, year |-> year, pages |-> pages,
                 score |-> embed(text)],
        steps |-> <<"fetch", "hash", "extract", "gate", "embed">>]

\* Whether model.encode can raise matters for the candidates that get to
\* embed only.
ReachesEmbed(url, raw, d) ==
  IF Candidate(url, raw, FALSE, d).outcome = "Admitted" THEN BOOLEAN ELSE {FALSE}

\* email_digest: the messages it hands to SMTP, none for an empty list.
Row(r) == [url |-> r.url, year |-> r.year, score |-> r.score,
           ok |-> <<"APPROVE", r.sha>>, no |-> <<"REJECT", r.sha>>,
           nv |-> <<"NEVER", r.sha>>]

email_digest(cands) ==
  IF cands = << >> THEN << >>
  ELSE <<[count |-> Len(cands), rows |-> [k \in 1..Len(cands) |-> Row(cands[k])]]>>

Finished == pc \in {"done", "aborted"}

\* The run wrote both files; only the e-mail may have failed.
RunCompleted ==
  \/ pc = "done"
  \/ pc = "aborted" /\ effects # << >> /\ effects[Len(effects)] = <<"smtp", FALSE>>

\* ------------------------------------------------------------------- Init
InitRun ==
  /\ jsonState = "absent" /\ jsonRecs = << >> /\ csvRecs = << >>
  /\ pc = "idle" /\ fetches = 0
  /\ existing = << >> /\ links = << >> /\ start = 1 /\ idx = 0
  /\ new = << >> /\ sent = << >> /\ effects = << >>
  /\ outcomes = << >> /\ fetchLog = << >>
  /\ diskAtStart = [state |-> "absent", json |-> << >>, csv |-> << >>]
  /\ same = FALSE /\ prevLinks = << >> /\ prevLog = << >>

Init ==
  /\ InitRun /\ chunkTest = NoChunkTest /\ gateTest = NoGateTest
  /\ searchObs = NoSearchObs /\ train = NoTrain

\* ---------------------------------------------------------------- actions
\* A new process: module level up to the load of the ledger.
Load ==
  /\ pc = "idle" \/ Finished
  /\ fetches < MaxFetches
  /\ diskAtStart' = [state |-> jsonState, json |-> jsonRecs, csv |-> csvRecs]
  /\ LET loaded == json_load(jsonState, jsonRecs) IN
     /\ pc' = IF loaded.ok THEN "search" ELSE "aborted"
     /\ existing' = loaded.dict
  /\ links' = << >> /\ start' = 1 /\ idx' = 0 /\ new' = << >>
  /\ sent' = << >> /\ effects' = << >> /\ outcomes' = << >> /\ fetchLog' = << >>
  /\ same' = (RunCompleted /\ jsonState # "corrupt")
  /\ prevLinks' = IF same' THEN links ELSE << >>
  /\ prevLog' = IF same' THEN fetchLog ELSE << >>
  /\ UNCHANGED <<diskVars, fetches, testVars>>

\* One request of google_search and what follows it up to the next request
\* or the return: the response carries items, and a nextPage entry with the
\* cursor when more holds.  The locals end with the call.
SearchStep(items, more, cursor) ==
  /\ pc = "search"
  /\ LET got == links \o items
         returns == ~more \/ Len(got) >= NUM_RESULTS
         result == Take(got, NUM_RESULTS)
     IN /\ start' = IF returns THEN 1 ELSE cursor
        /\ links' = IF returns THEN result ELSE got
        /\ pc' = IF returns THEN "loop" ELSE "search"
        /\ same' = IF returns THEN same /\ result = prevLinks ELSE same
        /\ prevLinks' = IF same' THEN prevLinks ELSE << >>
        /\ prevLog' = IF same' THEN prevLog ELSE << >>
  /\ UNCHANGED <<diskVars, fetches, existing, idx, new, sent, effects, outcomes,
                 fetchLog, diskAtStart>>

SearchPage ==
  /\ \E items \in ItemLists, more \in BOOLEAN :
     \E cursor \in (IF more THEN 1..MaxStart ELSE {1}) :
       SearchStep(items, more, cursor)
  /\ UNCHANGED testVars

\* requests.get or .json() raises inside google_search: nothing catches it.
SearchFails ==
  /\ pc = "search"
  /\ pc' = "aborted"
  /\ links' = << >>
  /\ same' = FALSE /\ prevLinks' = << >> /\ prevLog' = << >>
  /\ UNCHANGED <<diskVars, fetches, existing, start, idx, new, sent, effects,
                 outcomes, fetchLog, diskAtStart, testVars>>

\* One pass of "for url in links".
ProcessCandidate ==
  /\ pc = "loop"
  /\ idx < Len(links)
  /\ fetches < MaxFetches
  /\ fetches' = fetches + 1
  /\ \E raw \in {None} \cup Contents :
     \E encodeRaises \in ReachesEmbed(links[idx + 1], raw, existing) :
       LET url == links[idx + 1]
           c == Candidate(url, raw, encodeRaises, existing)
       IN /\ fetchLog' = Append(fetchLog, <<url, raw>>)
          /\ IF c.outcome = "crash"
             THEN pc' = "aborted" /\ UNCHANGED <<idx, outcomes, new>>
             ELSE /\ pc' = "loop"
                  /\ idx' = idx + 1
                  /\ outcomes' = Append(outcomes, c.outcome)
                  /\ new' = IF c.outcome = "Admitted" THEN Append(new, c.rec) ELSE new
          /\ same' = (same /\ c.outcome # "crash" /\ idx < Len(prevLog)
                           /\ prevLog[idx + 1] = <<url, raw>>)
          /\ prevLinks' = IF same' THEN prevLinks ELSE << >>
          /\ prevLog' = IF same' THEN prevLog ELSE << >>
  /\ UNCHANGED <<diskVars, existing, links, start, sent, effects,
                 diskAtStart, testVars>>

\* "else: print('No new records.')"
NoNewRecords ==
  /\ pc = "loop" /\ idx = Len(links)
  /\ ~ShouldPersist(new)
  /\ pc' = "done"
  /\ UNCHANGED <<diskVars, fetches, runVars, ghostVars, testVars>>

\* JSON_PATH.write_text(json.dumps(allrecs))
WriteJson ==
  /\ pc = "loop" /\ idx = Len(links)
  /\ ShouldPersist(new)
  /\ jsonState' = "ok" /\ jsonRecs' = existing \o new
  /\ effects' = Append(effects, <<"json", TRUE>>)
  /\ pc' = "csv"
  /\ UNCHANGED <<csvRecs, fetches, existing, links, start, idx, new, sent,
                 outcomes, fetchLog, ghostVars, testVars>>

\* write_text raises: at open the file is as before, after it a truncated
\* file is left.
WriteJsonFails ==
  /\ pc = "loop" /\ idx = Len(links)
  /\ ShouldPersist(new)
  /\ \/ UNCHANGED <<jsonState, jsonRecs>>
     \/ jsonState' = "corrupt" /\ jsonRecs' = << >>
  /\ effects' = Append(effects, <<"json", FALSE>>)
  /\ pc' = "aborted"
  /\ UNCHANGED <<csvRecs, fetches, existing, links, start, idx, new, sent,
                 outcomes, fetchLog, ghostVars, testVars>>

\* The csv.DictWriter block.
WriteCsv ==
  /\ pc = "csv"
  /\ csvRecs' = existing \o new
  /\ effects' = Append(effects, <<"csv", TRUE>>)
  /\ pc' = "email"
  /\ UNCHANGED <<jsonState, jsonRecs, fetches, existing, links, start, idx, new,
                 sent, outcomes, fetchLog, ghostVars, testVars>>

\* The failure of the block swallowed: the script goes on to the e-mail.
WriteCsvFailsGoesOn ==
  /\ pc = "csv"
  /\ UNCHANGED csvRecs
  /\ effects' = Append(effects, <<"csv", FALSE>>)
  /\ pc' = "email"
  /\ UNCHANGED <<jsonState, jsonRecs, fetches, existing, links, start, idx, new,
                 sent, outcomes, fetchLog, ghostVars, testVars>>

\* The block raises: at open the file is as before, after it the file was
\* truncated and holds the rows written so far.
WriteCsvFails ==
  /\ pc = "csv"
  /\ \/ UNCHANGED csvRecs
     \/ \E k \in 0..(Len(existing \o new) - 1) :
          csvRecs' = SubSeq(existing \o new, 1, k)
  /\ effects' = Append(effects, <<"csv", FALSE>>)
  /\ pc' = "aborted"
  /\ UNCHANGED <<jsonState, jsonRecs, fetches, existing, links, start, idx, new,
                 sent, outcomes, fetchLog, ghostVars, testVars>>

\* email_digest(new), delivered.
EmailDigest ==
  /\ pc = "email"
  /\ sent' = sent \o email_digest(new)
  /\ effects' = IF email_digest(new) = << >> THEN effects
                ELSE Append(effects, <<"smtp", TRUE>>)
  /\ pc' = "done"
  /\ UNCHANGED <<diskVars, fetches, existing, links, start, idx, new, outcomes,
                 fetchLog, ghostVars, testVars>>

\* The SMTP block raises.
EmailDigestFails ==
  /\ pc = "email"
  /\ email_digest(new) # << >>
  /\ effects' = Append(effects, <<"smtp", FALSE>>)
  /\ pc' = "aborted"
  /\ UNCHANGED <<diskVars, fetches, existing, links, start, idx, new, sent,
                 outcomes, fetchLog, ghostVars, testVars>>

Next ==
  \/ Load
  \/ SearchPage
  \/ SearchFails
  \/ ProcessCandidate
  \/ NoNewRecords
  \/ WriteJson
  \/ WriteJsonFails
  \/ WriteCsv
  \/ WriteCsvFails
  \/ EmailDigest
  \/ EmailDigestFails

Spec == Init /\ [][Next]_vars

\* ------------------------------------------------- chunks on its own
ChunkInit ==
  /\ InitRun
  /\ gateTest = NoGateTest /\ searchObs = NoSearchObs /\ train = NoTrain
  /\ chunkTest \in {t \in ChunkInputs(MaxW) : t.s <= t.w /\ t.n <= t.w + t.s + MaxExtra}

ApplyChunks ==
  /\ ~chunkTest.done
  /\ chunkTest' = [chunkTest EXCEPT !.out = chunks(chunkTest.n, chunkTest.w, chunkTest.s),
                                     !.done = TRUE]
  /\ UNCHANGED <<diskVars, pc, fetches, runVars, ghostVars, gateTest, searchObs, train>>

ChunkNext == ApplyChunks

ChunkSpec == ChunkInit /\ [][ChunkNext]_vars

\* ------------------------------------------------- the gate on its own
GateInit ==
  /\ InitRun
  /\ chunkTest = NoChunkTest /\ searchObs = NoSearchObs /\ train = NoTrain
  /\ gateTest \in {g \in GateInputs(MaxPagesTried) : g.lowPages <= g.minPages /\ g.lowYear <= g.minYear}

\* The year search and the two threshold tests, under both configurations.
ApplyGate ==
  /\ ~gateTest.done
  /\ LET year == yearFrom(gateTest.textNums, gateTest.urlNums) IN
     gateTest' = [gateTest EXCEPT
                    !.year = year,
                    !.high = admit(gateTest.pages, year, gateTest.minPages, gateTest.minYear),
                    !.low = admit(gateTest.pages, year, gateTest.lowPages, gateTest.lowYear),
                    !.done = TRUE]
  /\ UNCHANGED <<diskVars, pc, fetches, runVars, ghostVars, chunkTest, searchObs, train>>

GateNext == ApplyGate

GateSpec == GateInit /\ [][GateNext]_vars

\* ------------------------------------------- google_search on its own
\* A process with no ledger yet that has reached the google_search call.
SearchInit ==
  /\ jsonState = "absent" /\ jsonRecs = << >> /\ csvRecs = << >>
  /\ pc = "search" /\ fetches = 0
  /\ existing = << >> /\ links = << >> /\ start = 1 /\ idx = 0
  /\ new = << >> /\ sent = << >> /\ effects = << >>
  /\ outcomes = << >> /\ fetchLog = << >>
  /\ diskAtStart = [state |-> "absent", json |-> << >>, csv |-> << >>]
  /\ same = FALSE /\ prevLinks = << >> /\ prevLog = << >>
  /\ chunkTest = NoChunkTest /\ gateTest = NoGateTest /\ searchObs = NoSearchObs
  /\ train = NoTrain

\* SearchPage with the response and the request count recorded.
SearchPageObserved ==
  /\ \E items \in ItemLists, more \in BOOLEAN :
     \E cursor \in (IF more THEN 1..MaxStart ELSE {1}) :
       /\ SearchStep(items, more, cursor)
       /\ searchObs' = [items |-> items, more |-> more, cursor |-> cursor,
                        tick |-> 1 - searchObs.tick]
  /\ UNCHANGED <<chunkTest, gateTest, train>>

SearchNext == SearchPageObserved

\* The process keeps running and the provider keeps answering.
SearchSpec == SearchInit /\ [][SearchNext]_vars /\ WF_vars(SearchPageObserved)


\* ------------------------------------------- the training job on its own
\* A ledger of n records, record k with the hash sha(k).
StoreOf(n) ==
  [k \in 1..n |-> [sha |-> sha(k), url |-> 1 + (k % 3), year |-> 2021, pages |-> 10,
                   score |-> k % 7]]

\* The label files read into a dict: the documents lo..hi labeled, those up
\* to p "positive", the others "negative".
LabelMapOf(lo, hi, p) ==
  [h \in {sha(k) : k \in lo..hi} |-> IF h <= sha(p) THEN "positive" ELSE "negative"]

\* The threshold test on the size of the label map.
EnoughLabeledInMap(labeled, labelmap) ==
  ~(Cardinality(DOMAIN labelmap) < MIN_LABELED)

\* "if len(labeled)<10: ...; return", negated.
EnoughLabeled(labeled, labelmap) == ~(Len(labeled) < MIN_LABELED)

\* "labeled=[r for r in master if r["sha"] in labelmap]" and
\* "for r in labeled: r["label"]=labelmap[r["sha"]]"
LabeledOf(master, labelmap) ==
  LET hit == SelectSeq(master, LAMBDA r : r.sha \in DOMAIN labelmap)
  IN [k \in 1..Len(hit) |-> hit[k] @@ ("label" :> labelmap[hit[k].sha])]

\* Whether load_embeddings, train_test_split and fit can raise:
\* LogisticRegression.fit raises when the training part has one class only,
\* which is sure when all labels agree and depends on the split otherwise.
FitRaises(labeled) ==
  IF \A i, j \in 1..Len(labeled) : labeled[i].label = labeled[j].label
  THEN {TRUE} ELSE BOOLEAN

TrainInit ==
  /\ pc = "idle" /\ fetches = 0
  /\ existing = << >> /\ links = << >> /\ start = 1 /\ idx = 0
  /\ new = << >> /\ sent = << >> /\ effects = << >>
  /\ outcomes = << >> /\ fetchLog = << >>
  /\ same = FALSE /\ prevLinks = << >> /\ prevLog = << >>
  /\ chunkTest = NoChunkTest /\ gateTest = NoGateTest /\ searchObs = NoSearchObs
  /\ jsonState \in {"absent", "ok", "corrupt"}
  /\ \E n \in 0..MaxStore :
       /\ jsonRecs = IF jsonState = "ok" THEN StoreOf(n) ELSE << >>
       /\ csvRecs = jsonRecs
  /\ diskAtStart = [state |-> jsonState, json |-> jsonRecs, csv |-> csvRecs]
  /\ \E labels, wellFormed \in BOOLEAN, lo \in {1, 3}, hi \in 0..(MaxStore + 1), p \in {0, 5} :
       train = [NoTrain EXCEPT !.labels = labels, !.wellFormed = wellFormed,
                               !.labelmap = IF labels THEN LabelMapOf(lo, hi, p) ELSE << >>]

\* relevance_model.main.  An exception leaves the process at "raised".
TrainMain ==
  /\ train.pc = "idle"
  /\ IF ~train.labels
     THEN train' = [train EXCEPT !.pc = "returned"]
     ELSE IF jsonState # "ok" \/ ~train.wellFormed
     THEN train' = [train EXCEPT !.pc = "raised"]
     ELSE LET labeled == LabeledOf(jsonRecs, train.labelmap) IN
          IF ~EnoughLabeled(labeled, train.labelmap)
          THEN train' = [train EXCEPT !.pc = "returned", !.labeled = labeled]
          ELSE \E raises \in FitRaises(labeled) :
                 train' = [train EXCEPT !.pc = IF raises THEN "raised" ELSE "saved",
                                        !.labeled = labeled,
                                        !.artifact = ~raises]
  /\ UNCHANGED <<diskVars, pc, fetches, runVars, ghostVars, chunkTest, gateTest, searchObs>>

TrainNext == TrainMain

TrainSpec == TrainInit /\ [][TrainNext]_vars


\* ===================================================================
\* The claims.
\* ===================================================================
\* The text the extractors hand on for fetch call k of this run.
TextOf(k) ==
  LET url == fetchLog[k][1]
      raw == fetchLog[k][2]
  IN IF UrlInfo[url].pdf THEN extract_pdf(raw).text ELSE extract_html(raw)

PastSearch == pc \in {"loop", "csv", "email", "done", "aborted"}

\* C1: two distinct locators of one run that return the same bytes give one
\* record: once the first is admitted, the second ends as SkippedDuplicate
\* and the batch holds exactly one record with that hash.
C1_OneRecordPerContent ==
  \A i, j \in 1..Len(outcomes) :
    (i < j /\ fetchLog[i][1] # fetchLog[j][1] /\ fetchLog[i][2] = fetchLog[j][2]
       /\ outcomes[i] = "Admitted")
    => /\ outcomes[j] = "SkippedDuplicate"
       /\ Cardinality({k \in 1..Len(new) : new[k].sha = sha(fetchLog[i][2])}) = 1

\* C2: a run that repeats the links and the fetch results of the previous
\* completed run admits nothing, writes no file and sends no message.
C2_RerunIdempotent ==
  (same /\ PastSearch) => (new = << >> /\ effects = << >> /\ sent = << >>)

\* C2 witness: such a repeated run ended, and the run it repeats had fetched
\* a document that is now in the ledger.
C2_Witness ==
  /\ same /\ pc = "done" /\ Len(prevLog) >= 1 /\ idx = Len(prevLog)
  /\ \E k \in 1..Len(outcomes) : outcomes[k] = "SkippedDuplicate"
  /\ diskAtStart.json # << >>

\* C3: after a completed run the ledger is the list that was on disk when the
\* run started followed by the run's batch.
C3_AppendOnly ==
  pc = "done" => (jsonState = diskAtStart.state \/ new # << >>)
                 /\ jsonRecs = diskAtStart.json \o new

\* C4: once the CSV step has ended, by success or by failure, the JSON list
\* and the CSV rows are the same record list.
C4_TwoFilesAgree ==
  (\E k \in 1..Len(effects) : effects[k][1] = "csv") => jsonRecs = csvRecs

\* C5: a run that got its links ends with every link finished, each fetched
\* exactly once and in order, whatever failed for an earlier link.
C5_FailureIsolation ==
  (Finished /\ links # << >>)
  => /\ Len(outcomes) = Len(links)
     /\ Len(fetchLog) = Len(links)
     /\ \A k \in 1..Len(links) : fetchLog[k][1] = links[k]

\* C6: a candidate whose text gives no window is not admitted.
C6_NoWindowsNotAdmitted ==
  \A k \in 1..Len(outcomes) :
    outcomes[k] = "Admitted" => chunks(TextOf(k).words, WIN, STRIDE) # << >>

\* C7: a run that ends with an empty batch wrote neither file and sent
\* nothing, and email_digest of an empty list sends nothing.
C7_EmptyBatchNoEffects ==
  /\ email_digest(<< >>) = << >>
  /\ (Finished /\ new = << >>)
     => /\ effects = << >> /\ sent = << >>
        /\ jsonState = diskAtStart.state
        /\ jsonRecs = diskAtStart.json
        /\ csvRecs = diskAtStart.csv

\* C7 witness: a run over links that were all duplicates of ledger entries
\* ended with "No new records.".
C7_Witness ==
  /\ pc = "done" /\ new = << >> /\ Len(outcomes) >= 1
  /\ \A k \in 1..Len(outcomes) : outcomes[k] = "SkippedDuplicate"

\* C8: a completed run with a batch of k records makes the ledger k records
\* longer and sends exactly one message, with one row per record of the
\* batch, in order, whose three links carry the record's hash.
C8_GrowsByBatch ==
  (pc = "done" /\ new # << >>)
  => /\ Len(jsonRecs) = Len(diskAtStart.json) + Len(new)
     /\ Len(sent) = 1
     /\ Len(sent[1].rows) = Len(new)
     /\ \A k \in 1..Len(new) :
          LET row == sent[1].rows[k] IN
          /\ row.url = new[k].url
          /\ row.ok = <<"APPROVE", new[k].sha>>
          /\ row.no = <<"REJECT", new[k].sha>>
          /\ row.nv = <<"NEVER", new[k].sha>>

\* C9 as claimed: W tokens give one window, W + S tokens give two, fewer
\* tokens than the floor give none.
C9_WindowCount ==
  chunkTest.done =>
    /\ chunkTest.n = chunkTest.w => Len(chunkTest.out) = 1
    /\ chunkTest.n = chunkTest.w + chunkTest.s => Len(chunkTest.out) = 2
    /\ chunkTest.n < Floor => Len(chunkTest.out) = 0

\* C9 as amended: n >= 100 tokens give 1 + (n - 100) div S windows, so W
\* tokens give one window and W + S tokens give two exactly when
\* W - S < 100; fewer tokens than the floor give none.
C9_WindowCountAmended ==
  chunkTest.done =>
    LET w == chunkTest.w
        s == chunkTest.s
        n == chunkTest.n
        count == Len(chunkTest.out)
    IN /\ n < Floor => count = 0
       /\ n >= Floor => count = 1 + (n - Floor) \div s
       /\ n = w => (count = 1 <=> w - s < Floor)
       /\ n = w + s => (count = 2 <=> w - s < Floor)

\* C9 witness: the two-window case, and a case with a tail window.
C9_Witness ==
  /\ chunkTest.done
  /\ chunkTest.n = chunkTest.w + chunkTest.s
  /\ chunkTest.w - chunkTest.s < Floor
  /\ chunkTest.s < chunkTest.w
  /\ Len(chunkTest.out) = 2

\* C10: a run whose search returned no link does not end like a normal run.
C10_ZeroLinksFatal ==
  pc = "done" => links # << >>


\* C11: in every run the files are written at most once and one message at
\* most is sent, in the order JSON, CSV, e-mail, each step only after the
\* one before succeeded and only after every link is finished; once the
\* e-mail step was reached, also when delivery failed, the two files hold
\* the loaded records followed by the batch.
C11_PersistThenNotify ==
  LET order == <<"json", "csv", "smtp">> IN
  /\ Len(effects) <= 3
  /\ \A k \in 1..Len(effects) :
       /\ effects[k][1] = order[k]
       /\ k < Len(effects) => effects[k][2] = TRUE
  /\ effects # << >> => (idx = Len(links) /\ Len(outcomes) = Len(links))
  /\ Len(sent) <= 1
  /\ sent # << >> => effects = <<(<<"json", TRUE>>), <<"csv", TRUE>>, <<"smtp", TRUE>>>>
  /\ Len(effects) = 3 =>
       /\ jsonState = "ok"
       /\ jsonRecs = existing \o new
       /\ csvRecs = existing \o new

\* C11 witness: both files were written, then the delivery failed, and the
\* files are as written.
C11_Witness ==
  /\ pc = "aborted"
  /\ effects = <<(<<"json", TRUE>>), <<"csv", TRUE>>, <<"smtp", FALSE>>>>
  /\ sent = << >>
  /\ jsonRecs = existing \o new /\ csvRecs = jsonRecs /\ new # << >>


\* C12: a candidate admitted under thresholds (minPages, minYear) is admitted
\* under every pair of thresholds that are no higher.
C12_GateMonotone ==
  (gateTest.done /\ gateTest.high) => gateTest.low

\* C12 witness: a candidate admitted under both configurations, the second
\* one strictly lower in both thresholds, and one rejected under the higher
\* thresholds only is covered by the same inputs.
C12_Witness ==
  /\ gateTest.done /\ gateTest.high /\ gateTest.low
  /\ gateTest.lowPages < gateTest.minPages /\ gateTest.lowYear < gateTest.minYear
  /\ gateTest.minPages > 0 /\ gateTest.minYear > SENTINEL_YEAR


\* C13: a run started without a ledger file has an empty dict and goes on
\* to the search; a run started on a ledger that does not parse is aborted
\* with no search request, no fetch, no write and no message, and both
\* files are as they were.
C13_StoreLoad ==
  /\ [](pc # "idle" =>
          /\ diskAtStart.state = "absent" => existing = << >>
          /\ diskAtStart.state = "corrupt" =>
               /\ pc = "aborted"
               /\ links = << >> /\ start = 1 /\ fetchLog = << >>
               /\ effects = << >> /\ sent = << >> /\ new = << >>
               /\ jsonState = "corrupt"
               /\ jsonRecs = diskAtStart.json /\ csvRecs = diskAtStart.csv)
  /\ [][(Load /\ jsonState = "absent") => pc' = "search"]_vars
  /\ [][(Load /\ jsonState = "corrupt") => (pc' = "aborted" /\ UNCHANGED diskVars)]_vars

\* C13 witness: a run was aborted at the load of a ledger that an earlier
\* failed write had left truncated.
C13_Witness ==
  pc = "aborted" /\ diskAtStart.state = "corrupt" /\ jsonState = "corrupt"


\* The fetches of a run whose locator has a record in the ledger the run
\* started from, whose bytes hash to no record of that ledger, and which
\* pass the extraction and the gate.
ChangedContent(k) ==
  LET url == fetchLog[k][1]
      raw == fetchLog[k][2]
  IN /\ diskAtStart.state = "ok"
     /\ raw # None
     /\ \E i \in 1..Len(diskAtStart.json) : diskAtStart.json[i].url = url
     /\ \A i \in 1..Len(diskAtStart.json) : diskAtStart.json[i].sha # sha(raw)
     /\ Candidate(url, raw, FALSE, << >>).outcome = "Admitted"

\* The first half of C14: the changed content is admitted and stored under
\* its new hash and the same locator.
C14_SecondRecordStored ==
  pc = "done" =>
    \A k \in 1..Len(outcomes) :
      ChangedContent(k) =>
        /\ outcomes[k] = "Admitted"
        /\ \E i \in 1..Len(jsonRecs) :
             jsonRecs[i].sha = sha(fetchLog[k][2]) /\ jsonRecs[i].url = fetchLog[k][1]

\* C14: when a locator with a record in the ledger returns changed bytes
\* that pass the extraction and the gate, the completed run has stored a
\* record with the new hash and the same locator, and every earlier record
\* of that locator is still in the ledger, unchanged.
C14_ChangedContentSecondRecord ==
  /\ C14_SecondRecordStored
  /\ pc = "done" =>
       \A k \in 1..Len(outcomes) :
         ChangedContent(k) =>
           \A i \in 1..Len(diskAtStart.json) :
             diskAtStart.json[i].url = fetchLog[k][1] =>
               \E j \in 1..Len(jsonRecs) : jsonRecs[j] = diskAtStart.json[i]


\* The publication year as the claim words it: the number at the least
\* position of the scanned numbers that starts with 19 or 20, 1900 for none.
LeftmostYear(nums) ==
  LET hits == {i \in 1..Len(nums) : nums[i] >= 1900 /\ nums[i] <= 2099}
  IN IF hits = {} THEN SENTINEL_YEAR
     ELSE nums[CHOOSE i \in hits : \A j \in hits : i <= j]

\* The page count of fetch k: total pages of a PDF, words / 500 of HTML.
PageCount(k) ==
  LET url == fetchLog[k][1]
      raw == fetchLog[k][2]
  IN IF UrlInfo[url].pdf THEN Doc[raw].total_pages
     ELSE TextOf(k).words \div WORDS_PER_PAGE

\* Fetch k succeeded, its hash is not in the ledger, its extraction
\* succeeded and its text gives at least one window.
Gated(k) ==
  LET url == fetchLog[k][1]
      raw == fetchLog[k][2]
  IN /\ raw # None
     /\ \A i \in 1..Len(existing) : existing[i].sha # sha(raw)
     /\ ~(UrlInfo[url].pdf /\ ~(Doc[raw].kind = "pdf" /\ Doc[raw].readable))
     /\ TextOf(k).words >= WIN

C16_BoundedInOrder ==
  /\ [][SearchPageObserved =>
          LET got == links \o searchObs'.items IN
          /\ pc' = "search" <=> (searchObs'.more /\ Len(got) < NUM_RESULTS)
          /\ pc' = "search" => (links' = got /\ start' = searchObs'.cursor)
          /\ pc' # "search" =>
               (pc' = "loop" /\ links' = SubSeq(got, 1, Min(NUM_RESULTS, Len(got))))]_vars
  /\ [](pc = "loop" => Len(links) <= NUM_RESULTS)

\* C16: google_search returns for every sequence of responses, with at most
\* NUM_RESULTS links in provider order, asking for a further page only
\* while fewer are collected and the last response carried a next cursor.
C16_SearchTerminates ==
  /\ C16_BoundedInOrder
  /\ <>(pc # "search")


\* The six terminal states of a candidate and the order of its steps.
TerminalStates ==
  {"SkippedFetchError", "SkippedDuplicate", "SkippedUnreadable",
   "SkippedInsufficientText", "SkippedBelowThreshold", "Admitted"}

StepOrder == <<"fetch", "hash", "extract", "embed", "gate">>

\* The steps the loop body ran on fetch k.
StepsOf(k) == Candidate(fetchLog[k][1], fetchLog[k][2], FALSE, existing).steps

\* s is a subsequence of StepOrder cut at some step: the steps of s are
\* those of StepOrder up to its last one, in that order.
InStepOrder(s) == \E n \in 0..Len(StepOrder) : s = SubSeq(StepOrder, 1, n)

\* C17: every finished candidate is in one of the six terminal states, its
\* steps ran in the order fetch, hash check, extract, embed, gate; one that
\* ended as SkippedBelowThreshold was embedded before, and one whose text
\* gives no window ended as SkippedInsufficientText.
C17_StateOrder ==
  \A k \in 1..Len(outcomes) :
    /\ outcomes[k] \in TerminalStates
    /\ InStepOrder(StepsOf(k))
    /\ outcomes[k] = "SkippedBelowThreshold" =>
         \E i \in 1..Len(StepsOf(k)) : StepsOf(k)[i] = "embed"
    /\ ( /\ outcomes[k] \notin {"SkippedFetchError", "SkippedDuplicate", "SkippedUnreadable"}
         /\ chunks(TextOf(k).words, WIN, STRIDE) = << >> )
       => outcomes[k] = "SkippedInsufficientText"

\* The part of C17 the loop keeps: one of five terminal states, reached
\* after the steps fetch, hash check, extract, gate, embed in that order.
C17_CodeOrder ==
  \A k \in 1..Len(outcomes) :
    /\ outcomes[k] \in TerminalStates \ {"SkippedInsufficientText"}
    /\ \E n \in 0..5 :
         StepsOf(k) = SubSeq(<<"fetch", "hash", "extract", "gate", "embed">>, 1, n)


\* The ledger records whose hash has a label, counted on the file.
LabeledInStore ==
  Cardinality({k \in 1..Len(jsonRecs) : jsonRecs[k].sha \in DOMAIN train.labelmap})

\* C18: the training job leaves both ledger files as they were, no record
\* of the file carries a label, and model_latest.joblib is written only
\* when data/labels exists and at least 10 records of the ledger have a
\* label; with fewer, or without data/labels, it returns having written
\* nothing.
C18_TrainingLeavesStore ==
  /\ jsonState = diskAtStart.state
  /\ jsonRecs = diskAtStart.json
  /\ csvRecs = diskAtStart.csv
  /\ \A k \in 1..Len(jsonRecs) : "label" \notin DOMAIN jsonRecs[k]
  /\ train.artifact =>
       train.labels /\ jsonState = "ok" /\ LabeledInStore >= MIN_LABELED
  /\ (train.pc # "idle" /\ (~train.labels \/ LabeledInStore < MIN_LABELED)) =>
       ~train.artifact
  /\ (train.pc # "idle" /\ ~train.labels) => train.pc = "returned"

\* C18 witness: the job wrote the classifier from exactly 10 labeled
\* records of a longer ledger, with the labels on its copies only.
C18_Witness ==
  /\ train.pc = "saved" /\ train.artifact
  /\ LabeledInStore = MIN_LABELED /\ Len(jsonRecs) > MIN_LABELED
  /\ Len(train.labeled) = MIN_LABELED
  /\ \A k \in 1..Len(train.labeled) : "label" \in DOMAIN train.labeled[k]

====
